---- MODULE Spec2Model ----
(***************************************************************************)
(* A model of Bourstad-Helper: the snapshot cache of scraper.py, the       *)
(* portal login and catalog fetch, the two symbol mappers and the          *)
(* recommendation rules of analyzer.py and dashboard.py.                   *)
(*                                                                         *)
(* Python strings that the code takes apart (identifiers with a ':'        *)
(* delimiter) are sequences of tokens: the delimiter ":" and chunks that   *)
(* hold no delimiter.  The empty sequence is the empty string.             *)
(***************************************************************************)
EXTENDS Integers, Sequences, FiniteSets, TLC

VARIABLES
    cache,      \* cache directory: mapped symbol -> file (absent, partial, garbage, full)
    provider,   \* what yf.Ticker(key).info answers for each key right now
    pc,         \* per caller: where it is inside fetch_stock_data / fetch_with_cache
    sym,        \* per caller: the Bourstad symbol it was called with
    info,       \* per caller: the local variable info of fetch_with_cache
    ret,        \* per caller: what fetch_with_cache returned (or that it raised)
    out,        \* per caller: what fetch_stock_data returned
    trk,        \* per caller: what the current call did (history)
    calls,      \* per key: provider round trips in the current cache generation (history)
    lastCall    \* per key: the last completed call of this generation: its result and
                \* its provider round trips (history)

cacheVars == <<cache, provider, pc, sym, info, ret, out, trk, calls, lastCall>>

VARIABLES
    env,        \* os.getenv: whether BOURSTAD_LOGIN_URL and BOURSTAD_STOCKS_URL are set
    portal,     \* how the portal answers right now: statuses, body, redirect URL, catalog
    authRes,    \* what the last fetch_and_parse_stocks returned (or that it raised)
    reqLog,     \* the portal requests the last fetch_and_parse_stocks made, in order
    snapshot    \* data/extracted_stocks.txt: absent, or its lines

authVars == <<env, portal, authRes, reqLog, snapshot>>

VARIABLES
    mapIn,      \* the identifier handed to the mappers
    scrOut,     \* what scraper.map_bourstad_to_yfinance gave for it
    dashOut     \* what dashboard.map_bourstad_to_yfinance gave for it

mapVars == <<mapIn, scrOut, dashOut>>

VARIABLES
    snap,       \* the stock record handed to the evaluators
    anaOut,     \* analyzer.analyze_stocks([snap]): its recommendations, or that it raised
    genOut      \* dashboard.generate_recommendation(snap): label and score, or that it raised

evalVars == <<snap, anaOut, genOut>>

VARIABLES
    owned,      \* the owned positions handed to analyzer.analyze_owned_stocks
    recs,       \* the recommendation strings handed to it
    ownOut      \* its decisions, or that it raised

ownVars == <<owned, recs, ownOut>>

VARIABLES
    creds,      \* os.getenv: whether BOURSTAD_USERNAME and BOURSTAD_PASSWORD are set
    secOut      \* what the last get_bourstad_securities returned (and what it started from)

secVars == <<creds, secOut>>

VARIABLES
    bIn,        \* the symbols handed to the dashboard's snapshot fetches
    bCache,     \* the cache directory they work on: key -> file
    bProv,      \* what yf.Ticker(key).info answers for each key
    sOut,       \* dashboard.fetch_stock_data(bIn[1]): the record, or that it raised
    bOut,       \* dashboard.fetch_batch_stock_data(bIn): the list, or that it raised
    bScr,       \* scraper.fetch_batch_stock_data(bIn): what it returned
    fOut,       \* dashboard.filter_valid_symbols(bIn): the list, or that it raised
    both,       \* the two fetch_with_cache run on one key from the cache as it is
    bLog        \* the cache and provider operations of the last call, in order

batchVars == <<bIn, bCache, bProv, sOut, bOut, bScr, fOut, both, bLog>>

VARIABLES
    hIn,        \* the symbols handed to fetch_highlights_data
    hProv,      \* per provider key: what the provider has for the selected date
    hFile,      \* cache/highlights_<date>.json
    hOut        \* the last call: which implementation, its result, the file it started
                \* from and the provider keys it asked, in order

hlVars == <<hIn, hProv, hFile, hOut>>

VARIABLES
    hl,         \* highlights_df: the rows of the highlight set, in table order
    gainers,    \* the rows shown as largest gainers (positions in hl)
    losers,     \* the rows shown as largest losers
    byVolume,   \* the rows shown as highest volume
    mentions    \* the rows written as honorable mentions

rankVars == <<hl, gainers, losers, byVolume, mentions>>

VARIABLES
    page,       \* the holdings page of the portal: how the request ends and its table
    held        \* what the last fetch_owned_securities returned

holdVars == <<page, held>>

vars == <<cacheVars, authVars, mapVars, evalVars, ownVars, secVars, batchVars, hlVars,
          rankVars, holdVars>>

\* the cache actions leave the rest alone
CacheOnly ==
    UNCHANGED <<authVars, mapVars, evalVars, ownVars, secVars, batchVars, hlVars,
                rankVars, holdVars>>

\* the login and catalog actions leave the rest alone
AuthOnly ==
    UNCHANGED <<cacheVars, mapVars, evalVars, ownVars, secVars, batchVars, hlVars,
                rankVars, holdVars>>

\* the mapper actions leave the rest alone
MapOnly ==
    UNCHANGED <<cacheVars, authVars, evalVars, ownVars, secVars, batchVars, hlVars,
                rankVars, holdVars>>

\* the evaluator actions leave the rest alone
EvalOnly ==
    UNCHANGED <<cacheVars, authVars, mapVars, ownVars, secVars, batchVars, hlVars,
                rankVars, holdVars>>

\* the owned-position actions leave the rest alone
OwnOnly ==
    UNCHANGED <<cacheVars, authVars, mapVars, evalVars, secVars, batchVars, hlVars,
                rankVars, holdVars>>

(***************************************************************************)
(* Strings                                                                 *)
(***************************************************************************)
Delim == ":"

Chunks == {"MMM", "VNP", "XYZ", "CA", "EGX", "ZZ"}

\* str.split(":"): the pieces between the delimiters, empty pieces kept
RECURSIVE Split(_)
Split(s) ==
    IF s = <<>> THEN << <<>> >>
    ELSE LET rest == Split(Tail(s)) IN
         IF Head(s) = Delim THEN << <<>> >> \o rest
         ELSE << (<<Head(s)>> \o Head(rest)) >> \o Tail(rest)

\* ":" in symbol
HasDelim(s) == \E i \in 1..Len(s) : s[i] = Delim

MMM_EGX == <<"MMM", ":", "EGX">>
VNP_CA == <<"VNP", ":", "CA">>
XYZ_ZZ == <<"XYZ", ":", "ZZ">>

\* a value of the mapper: a string, None, or an exception raised
Str(s) == [kind |-> "str", s |-> s]
NoneM == [kind |-> "None", s |-> <<>>]
RaiseM == [kind |-> "raise", s |-> <<>>]

\* scraper.map_bourstad_to_yfinance: mappings.get(bourstad_symbol, bourstad_symbol)
ScraperMap(s) ==
    IF s = MMM_EGX THEN Str(<<"MMM">>)
    ELSE IF s = VNP_CA THEN Str(<<"VNP", ".TO">>)
    ELSE Str(s)

(***************************************************************************)
(* The snapshot cache: scraper.fetch_stock_data and scraper.fetch_with_cache*)
(***************************************************************************)
Procs == {"p1", "p2"}

\* the Bourstad symbols the callers ask for
CacheSymbols == {MMM_EGX, XYZ_ZZ}

\* the cache keys (file names): the mapped symbols
CacheKeys == {ScraperMap(s).s : s \in CacheSymbols}

MaxCalls == 2

\* stock.info: it raises, is an empty dict, or is a dict
RaiseO == [kind |-> "raise", currentPrice |-> "None", tz |-> FALSE]
EmptyO == [kind |-> "empty", currentPrice |-> "None", tz |-> FALSE]
Dict(p, t) == [kind |-> "dict", currentPrice |-> p, tz |-> t]
Dicts == {Dict("None", TRUE), Dict("p1", FALSE), Dict("p1", TRUE), Dict("p2", TRUE)}
ProviderOutcomes == {RaiseO, EmptyO} \cup Dicts

\* what fetch_with_cache gives its caller
NoneR == [kind |-> "None", currentPrice |-> "None", tz |-> FALSE]
RaisedR == [kind |-> "raised", currentPrice |-> "None", tz |-> FALSE]
NoCall == [kind |-> "nocall", currentPrice |-> "None", tz |-> FALSE]

\* a cache file
AbsentF == [state |-> "absent", data |-> EmptyO]
PartialF == [state |-> "partial", data |-> EmptyO]   \* opened "w", dump not finished
GarbageF == [state |-> "garbage", data |-> EmptyO]   \* unparseable bytes from outside
FullF(d) == [state |-> "full", data |-> d]
Deserializable(f) == f.state = "full"

\* what fetch_stock_data gives its caller
NoneOut == [kind |-> "None", Symbol |-> <<>>, CurrentPrice |-> "None"]
StockData(s, i) == [kind |-> "stock_data", Symbol |-> s, CurrentPrice |-> i.currentPrice]

\* scraper.fetch_stock_data lines 347-360, on fetch_with_cache's value
FsdResult(s, r) ==
    IF r.kind # "dict" \/ r.currentPrice = "None" THEN NoneOut
    ELSE StockData(s, r)

Key(p) == ScraperMap(sym[p]).s

\* no call completed yet in this generation
NoLast == [ret |-> NoCall, made |-> 0]

\* what a call did: provider round trips made, whether it met a file it could not
\* deserialize (and whether that was a write in progress), whether it removed the
\* file, the file and the generation's last call as it started, the provider's answer
NoTrk == [made |-> 0, sawCorrupt |-> FALSE, sawPartial |-> FALSE, removed |-> FALSE,
          startFile |-> AbsentF, startLast |-> NoLast, asked |-> EmptyO]

Idle(p) == pc[p] \in {"idle", "done"}

\* fetch_with_cache returns r (or raises) after m provider round trips;
\* fetch_stock_data finishes in the same step
Return(p, r, m) ==
    /\ ret' = [ret EXCEPT ![p] = r]
    /\ out' = [out EXCEPT ![p] = FsdResult(sym[p], r)]
    /\ lastCall' = [lastCall EXCEPT ![Key(p)] = [ret |-> r, made |-> m]]
    /\ pc' = [pc EXCEPT ![p] = "done"]

\* fetch_stock_data(symbol): lines 341-346, up to the call of fetch_with_cache
Call(p, s) ==
    /\ Idle(p)
    /\ calls[ScraperMap(s).s] + Cardinality({q \in Procs : ~Idle(q)}) < MaxCalls
    /\ sym' = [sym EXCEPT ![p] = s]
    /\ trk' = [trk EXCEPT ![p] = [NoTrk EXCEPT !.startFile = cache[ScraperMap(s).s],
                                               !.startLast = lastCall[ScraperMap(s).s]]]
    /\ ret' = [ret EXCEPT ![p] = NoCall]
    /\ out' = [out EXCEPT ![p] = NoneOut]
    /\ pc' = [pc EXCEPT ![p] = IF ScraperMap(s).s = <<>> THEN "done" ELSE "exists"]
    /\ UNCHANGED <<cache, provider, info, calls, lastCall>>
    /\ CacheOnly

\* line 249: os.path.exists(cache_file)
Exists(p) ==
    /\ pc[p] = "exists"
    /\ pc' = [pc EXCEPT ![p] = IF cache[Key(p)].state # "absent" THEN "load" ELSE "fetch"]
    /\ UNCHANGED <<cache, provider, sym, info, ret, out, trk, calls, lastCall>>
    /\ CacheOnly

\* lines 250-256: open and json.load
Load(p) ==
    /\ pc[p] = "load"
    /\ LET f == cache[Key(p)] IN
       IF f.state = "absent" THEN
            \* FileNotFoundError is no ValueError: it leaves fetch_with_cache
            /\ Return(p, RaisedR, trk[p].made)
            /\ UNCHANGED trk
       ELSE IF Deserializable(f) THEN
            /\ Return(p, f.data, trk[p].made)
            /\ UNCHANGED trk
       ELSE /\ trk' = [trk EXCEPT ![p].sawCorrupt = TRUE,
                                  ![p].sawPartial = (f.state = "partial")]
            /\ pc' = [pc EXCEPT ![p] = "remove"]
            /\ UNCHANGED <<ret, out, lastCall>>
    /\ UNCHANGED <<cache, provider, sym, info, calls>>
    /\ CacheOnly

\* line 257: os.remove(cache_file), inside the except clause
Remove(p) ==
    /\ pc[p] = "remove"
    /\ IF cache[Key(p)].state = "absent" THEN
            /\ Return(p, RaisedR, trk[p].made)
            /\ UNCHANGED <<cache, trk>>
       ELSE /\ cache' = [cache EXCEPT ![Key(p)] = AbsentF]
            /\ trk' = [trk EXCEPT ![p].removed = TRUE]
            /\ pc' = [pc EXCEPT ![p] = "fetch"]
            /\ UNCHANGED <<ret, out, lastCall>>
    /\ UNCHANGED <<provider, sym, info, calls>>
    /\ CacheOnly

\* a weaker validity test, one that lets an empty answer through
UsableNotRaised(o) == o.kind # "raise"

\* line 265: not info or not isinstance(info, dict)
Usable(o) == o.kind = "dict"

\* lines 260-267 and 275-277: stock.info and the validity test
Fetch(p) ==
    /\ pc[p] = "fetch"
    /\ calls' = [calls EXCEPT ![Key(p)] = @ + 1]
    /\ trk' = [trk EXCEPT ![p].made = @ + 1, ![p].asked = provider[Key(p)]]
    /\ IF Usable(provider[Key(p)]) THEN
            /\ info' = [info EXCEPT ![p] = provider[Key(p)]]
            /\ pc' = [pc EXCEPT ![p] = "open"]
            /\ UNCHANGED <<ret, out, lastCall>>
       ELSE /\ Return(p, NoneR, trk[p].made + 1)
            /\ UNCHANGED info
    /\ UNCHANGED <<cache, provider, sym>>
    /\ CacheOnly

\* line 270: open(cache_file, "w") truncates the file
OpenW(p) ==
    /\ pc[p] = "open"
    /\ cache' = [cache EXCEPT ![Key(p)] = PartialF]
    /\ pc' = [pc EXCEPT ![p] = "dump"]
    /\ UNCHANGED <<provider, sym, info, ret, out, trk, calls, lastCall>>
    /\ CacheOnly

\* a dump that leaves the file as open() left it
DumpedTruncated(i) == PartialF

\* what the finished json.dump leaves in the file
Dumped(i) == FullF(i)

\* lines 271-274: json.dump runs to its end
Dump(p) ==
    /\ pc[p] = "dump"
    /\ cache' = [cache EXCEPT ![Key(p)] = Dumped(info[p])]
    /\ Return(p, info[p], trk[p].made)
    /\ UNCHANGED <<provider, sym, info, trk, calls>>
    /\ CacheOnly

\* lines 271, 275-277: json.dump (or the disk) fails partway; the except clause
\* returns None and the file keeps what was written so far
DumpFail(p) ==
    /\ pc[p] = "dump"
    /\ cache' = [cache EXCEPT ![Key(p)] = PartialF]
    /\ Return(p, NoneR, trk[p].made)
    /\ UNCHANGED <<provider, sym, info, trk, calls>>
    /\ CacheOnly

Quiet == \A p \in Procs : Idle(p)

\* between calls: every caller has taken its result
Handed == [p \in Procs |-> "idle"]

\* the environment: a cache file is overwritten with unparseable bytes
Corrupt(k) ==
    /\ Quiet
    /\ cache[k].state = "full"
    /\ cache' = [cache EXCEPT ![k] = GarbageF]
    /\ calls' = [calls EXCEPT ![k] = 0]
    /\ lastCall' = [lastCall EXCEPT ![k] = NoLast]
    /\ pc' = Handed
    /\ UNCHANGED <<provider, sym, info, ret, out, trk>>
    /\ CacheOnly

\* the environment: a cache file is deleted
Evict(k) ==
    /\ Quiet
    /\ cache[k].state # "absent"
    /\ cache' = [cache EXCEPT ![k] = AbsentF]
    /\ calls' = [calls EXCEPT ![k] = 0]
    /\ lastCall' = [lastCall EXCEPT ![k] = NoLast]
    /\ pc' = Handed
    /\ UNCHANGED <<provider, sym, info, ret, out, trk>>
    /\ CacheOnly

\* the environment: the provider's answer for a key changes
ProviderChange(k, o) ==
    /\ Quiet
    /\ o # provider[k]
    /\ provider' = [provider EXCEPT ![k] = o]
    /\ pc' = Handed
    /\ UNCHANGED <<cache, sym, info, ret, out, trk, calls, lastCall>>
    /\ CacheOnly

CacheInit ==
    /\ cache = [k \in CacheKeys |-> AbsentF]
    /\ provider \in [CacheKeys -> ProviderOutcomes]
    /\ pc = [p \in Procs |-> "idle"]
    /\ sym = [p \in Procs |-> MMM_EGX]
    /\ info = [p \in Procs |-> EmptyO]
    /\ ret = [p \in Procs |-> NoCall]
    /\ out = [p \in Procs |-> NoneOut]
    /\ trk = [p \in Procs |-> NoTrk]
    /\ calls = [k \in CacheKeys |-> 0]
    /\ lastCall = [k \in CacheKeys |-> NoLast]

(***************************************************************************)
(* The login and the catalog fetch: scraper.fetch_and_parse_stocks         *)
(***************************************************************************)
MaxOptions == 2

\* an <option> of the catalog's dropdown: its id attribute and its trimmed text
Options == {[id |-> <<>>, name |-> <<"Select">>],
            [id |-> MMM_EGX, name |-> <<"3M Corp.">>]}

\* the catalog page: whether it holds the select2_demo_3 control, and its options
Catalogs == {[select |-> FALSE, options |-> <<>>]} \cup
            {[select |-> TRUE, options |-> o] :
                o \in UNION {[1..n -> Options] : n \in 0..MaxOptions}}

\* a token in the redirect URL's query: no such parameter, a blank value, a value
UrlTokens == {"absent", "blank", "value"}

\* which request, if any, fails at the transport (requests raises)
NetFaults == {"none", "get_login", "post_login", "get_stocks"}

\* the ways the portal can answer, field by field
PortalFields == [net |-> NetFaults, loginStatus |-> {200, 500}, rejected |-> BOOLEAN,
                 suid |-> UrlTokens, aut |-> UrlTokens,
                 stocksStatus |-> {200, 500}, catalog |-> Catalogs]

Portals == [net : PortalFields.net, loginStatus : PortalFields.loginStatus,
            rejected : PortalFields.rejected,
            suid : PortalFields.suid, aut : PortalFields.aut,
            stocksStatus : PortalFields.stocksStatus, catalog : PortalFields.catalog]

\* parse_qs(query).get(name, [None])[0]: parse_qs drops blank values
ParseQs(tok, name) == IF tok = "value" THEN name ELSE "None"

\* not x, for a str or None
Falsy(x) == x = "None" \/ x = ""

\* line 35: not login_url or not stocks_url
MissingUrls(e) == ~e.login \/ ~e.stocks

\* a login test that looks at the status alone
LoginFailedByStatus(status, rejected) == status # 200

\* line 50: status_code != 200 or "Se connecter" in text
LoginFailed(status, rejected) == status # 200 \/ rejected

\* a token test that fails only when both tokens are missing
MissingBothTokens(suid, aut) == Falsy(suid) /\ Falsy(aut)

\* line 60: not suid or not aut
MissingToken(suid, aut) == Falsy(suid) \/ Falsy(aut)

\* line 81: one line of the snapshot file
FormatLine(o) == <<"ID: ">> \o o.id \o <<", ", "Name: ">> \o o.name \o <<"\n">>

FormatLines(os) == [i \in 1..Len(os) |-> FormatLine(os[i])]

NoFile == [exists |-> FALSE, lines |-> <<>>]
File(ls) == [exists |-> TRUE, lines |-> ls]

\* return stocks, suid, aut
Result(stocks, suid, aut) == [kind |-> "returned", stocks |-> stocks, suid |-> suid, aut |-> aut]
Failed == Result(<<>>, "None", "None")
RaisedA == [kind |-> "raised", stocks |-> <<>>, suid |-> "None", aut |-> "None"]
NotCalled == [kind |-> "idle", stocks |-> <<>>, suid |-> "None", aut |-> "None"]

GetLogin == "GET login"
PostLogin == "POST login"
GetStocks == "GET stocks"

\* line 75: the options of the control, or [] without the control
ParseCatalog(c) == IF c.select THEN c.options ELSE <<>>

\* the whole of fetch_and_parse_stocks: <<result, requests made, snapshot file>>
FetchAndParse(e, po, file) ==
    LET suid == ParseQs(po.suid, "S1")
        aut == ParseQs(po.aut, "A1")
        stocks == ParseCatalog(po.catalog)
    IN
    IF MissingUrls(e) THEN <<Failed, <<>>, file>>
    ELSE IF po.net = "get_login" THEN <<RaisedA, <<GetLogin>>, file>>
    ELSE IF po.net = "post_login" THEN <<RaisedA, <<GetLogin, PostLogin>>, file>>
    ELSE IF LoginFailed(po.loginStatus, po.rejected)
        THEN <<Failed, <<GetLogin, PostLogin>>, file>>
    ELSE IF MissingToken(suid, aut)
        THEN <<Failed, <<GetLogin, PostLogin>>, file>>
    ELSE IF po.net = "get_stocks"
        THEN <<RaisedA, <<GetLogin, PostLogin, GetStocks>>, file>>
    ELSE IF po.stocksStatus # 200
        THEN <<Failed, <<GetLogin, PostLogin, GetStocks>>, file>>
    ELSE <<Result(stocks, suid, aut), <<GetLogin, PostLogin, GetStocks>>,
           File(FormatLines(stocks))>>

\* fetch_and_parse_stocks(email, password) runs against the portal as it is
Login ==
    /\ LET r == FetchAndParse(env, portal, snapshot) IN
        /\ authRes' = r[1]
        /\ reqLog' = r[2]
        /\ snapshot' = r[3]
    /\ UNCHANGED <<env, portal>>
    /\ AuthOnly

\* the environment: the portal's behaviour changes in one respect
PortalChange(f, v) ==
    /\ v # portal[f]
    /\ portal' = [portal EXCEPT ![f] = v]
    /\ authRes' = NotCalled
    /\ reqLog' = <<>>
    /\ UNCHANGED <<env, snapshot>>
    /\ AuthOnly

AuthIdle ==
    /\ env = [login |-> TRUE, stocks |-> TRUE]
    /\ portal = [net |-> "none", loginStatus |-> 200, rejected |-> FALSE,
                 suid |-> "value", aut |-> "value", stocksStatus |-> 200,
                 catalog |-> [select |-> TRUE, options |-> <<>>]]
    /\ authRes = NotCalled
    /\ reqLog = <<>>
    /\ snapshot = NoFile

(***************************************************************************)
(* The symbol mappers: dashboard.map_bourstad_to_yfinance beside the       *)
(* scraper's                                                               *)
(***************************************************************************)
MaxIdLen == 3

\* the identifiers: every string of at most MaxIdLen tokens
Ids == UNION {[1..n -> Chunks \cup {Delim}] : n \in 0..MaxIdLen}

\* dashboard.map_bourstad_to_yfinance; base_symbol, suffix = symbol.split(":")
\* raises ValueError unless the split gives exactly two pieces
DashboardMap(s) ==
    IF HasDelim(s) THEN
        LET parts == Split(s) IN
        IF Len(parts) # 2 THEN RaiseM
        ELSE IF parts[2] = <<"CA">> THEN Str(parts[1] \o <<".TO">>)
        ELSE IF parts[2] = <<"EGX">> THEN Str(parts[1])
        ELSE NoneM
    ELSE Str(s)

NotMapped == [kind |-> "idle", s |-> <<>>]

MapScraper ==
    /\ scrOut' = ScraperMap(mapIn)
    /\ UNCHANGED <<mapIn, dashOut>>
    /\ MapOnly

MapDashboard ==
    /\ dashOut' = DashboardMap(mapIn)
    /\ UNCHANGED <<mapIn, scrOut>>
    /\ MapOnly

MapIdle ==
    /\ mapIn = <<>>
    /\ scrOut = NotMapped
    /\ dashOut = NotMapped

(***************************************************************************)
(* The recommendation rules: analyzer.analyze_stocks and                   *)
(* dashboard.generate_recommendation                                       *)
(***************************************************************************)
MaxPrice == 11

\* a field of a stock record: a number, the string "N/A", None, or no such key.
\* Prices are whole numbers; the dividend yield is in hundredths (3 is 0.03)
Num(n) == [t |-> "num", v |-> n]
NA == [t |-> "na", v |-> 0]
NoneV == [t |-> "none", v |-> 0]
Missing == [t |-> "missing", v |-> 0]

PriceVals == {NA, NoneV, Missing} \cup {Num(n) : n \in 0..MaxPrice}
PeVals == {NA, Missing, Num(10), Num(15), Num(25), Num(35)}
YieldVals == {NA, Missing, Num(0), Num(1), Num(3), Num(5)}

Snapshots == [price : PriceVals, high : PriceVals, low : PriceVals,
              pe : PeVals, dy : YieldVals]

IsNum(x) == x.t = "num"

\* stock.get(key, 0)
GetOr0(x) == IF x.t = "missing" THEN Num(0) ELSE x

\* real_time_data.get(key, "N/A")
GetOrNA(x) == IF x.t = "missing" THEN NA ELSE x

\* x == 0
EqZero(x) == IsNum(x) /\ x.v = 0

\* x == "N/A"
EqNA(x) == x.t = "na"

\* a <= b * (n/10): "T" or "F"; TypeError ("raise") when a or b is a str or None
LeTimes(a, b, n) ==
    IF ~IsNum(a) \/ ~IsNum(b) THEN "raise"
    ELSE IF 10 * a.v <= n * b.v THEN "T" ELSE "F"

\* a >= b * (n/10)
GeTimes(a, b, n) ==
    IF ~IsNum(a) \/ ~IsNum(b) THEN "raise"
    ELSE IF 10 * a.v >= n * b.v THEN "T" ELSE "F"

\* a < n and a > n, against a number
LtNum(a, n) == IF ~IsNum(a) THEN "raise" ELSE IF a.v < n THEN "T" ELSE "F"
GtNum(a, n) == IF ~IsNum(a) THEN "raise" ELSE IF a.v > n THEN "T" ELSE "F"

\* analyzer lines 26-35: the if/elif chain on the 52-week range, conditions
\* evaluated in order: the label, or "raise" where a comparison raises TypeError
Proximity(cp, high, low) ==
    LET c1 == LeTimes(cp, low, 11) IN
    IF c1 = "raise" THEN "raise"
    ELSE IF c1 = "T" THEN "Strong Buy"
    ELSE IF LeTimes(cp, low, 12) = "T" THEN "Buy"
    ELSE LET c3 == GeTimes(cp, high, 9) IN
         IF c3 = "raise" THEN "raise"
         ELSE IF c3 = "T" THEN "Strong Sell"
         ELSE IF GeTimes(cp, high, 8) = "T" THEN "Sell"
         ELSE "Hold"

\* a recommendation line of analyze_stocks: its label and whether it comes from
\* the 52-week range ("proximity"), the fundamentals, or the data check
Line(rule, label) == [rule |-> rule, label |-> label]

\* analyzer lines 38-41: the fundamentals lines, or "raise"
Fundamentals(pe, dy) ==
    LET lowPe == LtNum(pe, 15) IN
    IF lowPe = "raise" THEN "raise"
    ELSE LET highDy == IF lowPe = "T" THEN GtNum(dy, 3) ELSE "F" IN
         IF highDy = "raise" THEN "raise"
         ELSE IF highDy = "T" THEN "Buy"
         ELSE IF GtNum(pe, 30) = "T" THEN "Sell"
         ELSE "none"

Raised(lines) == [kind |-> "raise", lines |-> lines]
Returned(lines) == [kind |-> "ok", lines |-> lines]

\* analyzer.analyze_stocks on a list of one stock: the recommendations returned,
\* or the exception with the list as built so far
AnalyzeStocks(s) ==
    LET cp == GetOr0(s.price)
        high == GetOr0(s.high)
        low == GetOr0(s.low)
        pe == GetOr0(s.pe)
        dy == GetOr0(s.dy)
    IN
    IF EqZero(cp) \/ EqZero(high) \/ EqZero(low)
    THEN Returned(<<Line("data", "Neutral")>>)
    ELSE LET prox == Proximity(cp, high, low) IN
         IF prox = "raise" THEN Raised(<<>>)
         ELSE LET fund == Fundamentals(pe, dy)
                  first == <<Line("proximity", prox)>>
              IN
              IF fund = "raise" THEN Raised(first)
              ELSE IF fund = "none" THEN Returned(first)
              ELSE Returned(first \o <<Line("fundamentals", fund)>>)

Rec(label, score) == [kind |-> "ok", label |-> label, score |-> score]
RaisedRec == [kind |-> "raise", label |-> "", score |-> 0]

\* the chain with the tests against the high placed before the second test
\* against the low
ProximityScoreHighFirst(cp, high, low) ==
    LET c1 == LeTimes(cp, low, 11) IN
    IF c1 = "raise" THEN RaisedRec
    ELSE IF c1 = "T" THEN Rec("Strong Buy", 100)
    ELSE LET c3 == GeTimes(cp, high, 9) IN
         IF c3 = "raise" THEN RaisedRec
         ELSE IF c3 = "T" THEN Rec("Strong Sell", 0)
         ELSE IF LeTimes(cp, low, 12) = "T" THEN Rec("Buy", 75)
         ELSE IF GeTimes(cp, high, 8) = "T" THEN Rec("Sell", 25)
         ELSE Rec("Hold", 50)

\* dashboard.generate_recommendation lines 214-223: the if/elif chain, conditions
\* evaluated in order
ProximityScore(cp, high, low) ==
    LET c1 == LeTimes(cp, low, 11) IN
    IF c1 = "raise" THEN RaisedRec
    ELSE IF c1 = "T" THEN Rec("Strong Buy", 100)
    ELSE IF LeTimes(cp, low, 12) = "T" THEN Rec("Buy", 75)
    ELSE LET c3 == GeTimes(cp, high, 9) IN
         IF c3 = "raise" THEN RaisedRec
         ELSE IF c3 = "T" THEN Rec("Strong Sell", 0)
         ELSE IF GeTimes(cp, high, 8) = "T" THEN Rec("Sell", 25)
         ELSE Rec("Hold", 50)

\* dashboard.generate_recommendation
GenerateRecommendation(s) ==
    LET cp == GetOrNA(s.price)
        high == GetOrNA(s.high)
        low == GetOrNA(s.low)
    IN
    IF EqNA(cp) \/ EqNA(high) \/ EqNA(low) THEN Rec("Neutral", 50)
    ELSE ProximityScore(cp, high, low)

NotAnalyzed == [kind |-> "idle", lines |-> <<>>]
NotRecommended == [kind |-> "idle", label |-> "", score |-> 0]

Analyze ==
    /\ anaOut' = AnalyzeStocks(snap)
    /\ UNCHANGED <<snap, genOut>>
    /\ EvalOnly

Recommend ==
    /\ genOut' = GenerateRecommendation(snap)
    /\ UNCHANGED <<snap, anaOut>>
    /\ EvalOnly

EvalIdle ==
    /\ snap = [price |-> Missing, high |-> Missing, low |-> Missing,
               pe |-> Missing, dy |-> Missing]
    /\ anaOut = NotAnalyzed
    /\ genOut = NotRecommended

(***************************************************************************)
(* The owned positions: analyzer.analyze_owned_stocks                      *)
(***************************************************************************)
MaxOwnedPrice == 5

\* symbols are sequences of letters, so that "symbol in rec" is a substring test
OwnedSymbols == {<<"A">>, <<"A", "B">>}

\* the average and the current price of a position
OwnedPrices == {NA, NoneV, Missing} \cup {Num(n) : n \in 0..MaxOwnedPrice}

\* "Gains and Losses": a string as a sequence of words, or no such key
NoStatus == <<"missing">>
Statuses == {<<"Success", "+30%">>, <<"SUCCESS">>, <<"Danger", "-5%">>,
             <<"success", "danger">>, <<"+2%">>, NoStatus}

\* str.lower() on one word
Lower(w) ==
    CASE w \in {"Success", "SUCCESS"} -> "success"
      [] w = "Danger" -> "danger"
      [] OTHER -> w

\* owned.get("Gains and Losses", "N/A")
GetStatus(st) == IF st = NoStatus THEN <<"N/A">> ELSE st

\* word in gains_losses.lower()
InLower(word, st) == \E i \in 1..Len(st) : Lower(st[i]) = word

\* s in t, for strings
Substring(s, t) == \E i \in 1..(Len(t) - Len(s) + 1) : SubSeq(t, i, i + Len(s) - 1) = s

\* a recommendation string of analyze_stocks: f"{name} ({symbol}): {label} - ..."
RecString(name, s, label) == name \o <<" (">> \o s \o <<"): ">> \o <<label>>

RecStrings == {RecString(<<"N">>, <<"A", "B">>, "Buy"),
               RecString(<<"N">>, <<"A">>, "Sell")}

\* the recommendations argument: a list without repetition
RecLists == {<<>>} \cup {<<r>> : r \in RecStrings}
            \cup {<<r, q>> : <<r, q>> \in {rq \in RecStrings \X RecStrings : rq[1] # rq[2]}}

Position(name, s, avg, cur, st) ==
    [name |-> name, sym |-> s, avg |-> avg, cur |-> cur, status |-> st]

\* the positions of the first row
Positions == {Position(<<"P">>, s, a, c, st) :
                s \in OwnedSymbols, a \in OwnedPrices, c \in OwnedPrices, st \in Statuses}

\* the positions of a second row
Followers == {Position(<<"F">>, <<"A", "B">>, Num(4), Num(4), <<"+2%">>),
              Position(<<"F">>, <<"A", "B">>, Num(0), Num(4), <<"Danger", "-5%">>)}

OwnedLists == {<<o>> : o \in Positions} \cup (Positions \X Followers)

\* a decision line: f"{name} ({symbol}): ..." with the rule it comes from, its
\* label and the text it echoes (the status, or the recommendation string)
Decision(o, rule, label, echo) ==
    [name |-> o.name, sym |-> o.sym, rule |-> rule, label |-> label, echo |-> echo]

\* lines 71-74: the gains/losses keywords
KeywordLines(o) ==
    LET gl == GetStatus(o.status) IN
    IF InLower("success", gl) THEN <<Decision(o, "keyword", "Hold", gl)>>
    ELSE IF InLower("danger", gl) THEN <<Decision(o, "keyword", "Consider selling", gl)>>
    ELSE <<>>

\* a > b * (n/10), a < b * (n/10): "raise" when a or b is a str or None
GtTimes(a, b, n) ==
    IF ~IsNum(a) \/ ~IsNum(b) THEN "raise"
    ELSE IF 10 * a.v > n * b.v THEN "T" ELSE "F"

LtTimes(a, b, n) ==
    IF ~IsNum(a) \/ ~IsNum(b) THEN "raise"
    ELSE IF 10 * a.v < n * b.v THEN "T" ELSE "F"

\* the comparison without its first branch
PriceRatioNoSell(cur, avg) ==
    LET c2 == LtTimes(cur, avg, 8) IN
    IF c2 = "raise" THEN "raise"
    ELSE IF c2 = "T" THEN "Buy more"
    ELSE "Hold"

\* lines 77-82: current price against average price: the label, or "raise"
PriceRatio(cur, avg) ==
    LET c1 == GtTimes(cur, avg, 12) IN
    IF c1 = "raise" THEN "raise"
    ELSE IF c1 = "T" THEN "Sell"
    ELSE IF LtTimes(cur, avg, 8) = "T" THEN "Buy more"
    ELSE "Hold"

\* lines 85-87: next((rec for rec in recommendations if symbol in rec), None)
CrossReference(o, rs) ==
    LET hits == {i \in 1..Len(rs) : Substring(o.sym, rs[i])} IN
    IF hits = {} THEN <<>>
    ELSE <<Decision(o, "xref", "", rs[CHOOSE i \in hits : \A j \in hits : i <= j])>>

\* the body of the loop for one position: its lines, or "raise"
DecideOne(o, rs) ==
    LET avg == GetOr0(o.avg)
        cur == GetOr0(o.cur)
    IN
    IF EqZero(cur) \/ EqZero(avg)
    THEN [kind |-> "ok", lines |-> <<Decision(o, "data", "Hold", <<>>)>>]
    ELSE LET ratio == PriceRatio(cur, avg) IN
         IF ratio = "raise" THEN [kind |-> "raise", lines |-> KeywordLines(o)]
         ELSE [kind |-> "ok",
               lines |-> KeywordLines(o) \o <<Decision(o, "ratio", ratio, <<>>)>>
                            \o CrossReference(o, rs)]

\* analyzer.analyze_owned_stocks: the decisions returned, or the exception with
\* the list as built so far
RECURSIVE AnalyzeOwnedStocks(_, _)
AnalyzeOwnedStocks(os, rs) ==
    IF os = <<>> THEN [kind |-> "ok", lines |-> <<>>]
    ELSE LET one == DecideOne(Head(os), rs) IN
         IF one.kind = "raise" THEN one
         ELSE LET rest == AnalyzeOwnedStocks(Tail(os), rs) IN
              [kind |-> rest.kind, lines |-> one.lines \o rest.lines]

NotDecided == [kind |-> "idle", lines |-> <<>>]

Decide ==
    /\ ownOut' = AnalyzeOwnedStocks(owned, recs)
    /\ UNCHANGED <<owned, recs>>
    /\ OwnOnly

OwnIdle ==
    /\ owned = <<>>
    /\ recs = <<>>
    /\ ownOut = NotDecided

(***************************************************************************)
(* The catalog with its fallback: dashboard.get_bourstad_securities        *)
(***************************************************************************)
\* str.split(d): the pieces between the occurrences of d
RECURSIVE SplitAt(_, _)
SplitAt(s, d) ==
    IF s = <<>> THEN << <<>> >>
    ELSE LET rest == SplitAt(Tail(s), d) IN
         IF Head(s) = d THEN << <<>> >> \o rest
         ELSE << (<<Head(s)>> \o Head(rest)) >> \o Tail(rest)

\* str.replace(w, "")
Without(s, w) == SelectSeq(s, LAMBDA x : x # w)

\* str.strip(): white space dropped at both ends
RECURSIVE StripLeft(_)
StripLeft(s) ==
    IF s # <<>> /\ Head(s) = "\n" THEN StripLeft(Tail(s)) ELSE s

RECURSIVE StripRight(_)
StripRight(s) ==
    IF s # <<>> /\ s[Len(s)] = "\n" THEN StripRight(SubSeq(s, 1, Len(s) - 1)) ELSE s

Strip(s) == StripRight(StripLeft(s))

\* lines 129-134: one line of the snapshot file, read back: the entries it gives
ParseLine(line) ==
    LET parts == SplitAt(line, ", ") IN
    IF Len(parts) > 1 /\ (\E i \in 1..Len(parts[1]) : parts[1][i] = "ID: ")
    THEN LET stock_id == Strip(Without(parts[1], "ID: "))
             stock_name == Strip(Without(parts[2], "Name: "))
         IN  IF stock_id # <<>> THEN <<[id |-> stock_id, name |-> stock_name]>>
             ELSE <<>>
    ELSE <<>>

\* lines 124-136: the fallback, on the snapshot file
RECURSIVE ParseLines(_)
ParseLines(ls) ==
    IF ls = <<>> THEN <<>> ELSE ParseLine(Head(ls)) \o ParseLines(Tail(ls))

LoadSnapshot(file) == IF file.exists THEN ParseLines(file.lines) ELSE <<>>

\* line 139: entries without an identifier are dropped
WithId(stocks) == SelectSeq(stocks, LAMBDA o : o.id # <<>>)

\* line 116: email and password
HasCreds(c) == c.email /\ c.password

\* what get_bourstad_securities returned: the catalog, the snapshot file it
\* started from, and whether the login it made gave a session
Securities(stocks, file, session) ==
    [kind |-> "ok", stocks |-> stocks, startFile |-> file, session |-> session]

NotFetched == [kind |-> "idle", stocks |-> <<>>, startFile |-> NoFile, session |-> FALSE]

\* get_bourstad_securities(): with credentials it calls fetch_and_parse_stocks;
\* only an exception (no credentials, or one raised by the call) leads to the
\* fallback
GetSecurities ==
    /\ IF HasCreds(creds)
       THEN LET r == FetchAndParse(env, portal, snapshot) IN
            /\ authRes' = r[1]
            /\ reqLog' = r[2]
            /\ snapshot' = r[3]
            /\ secOut' = IF r[1].kind = "raised"
                         THEN Securities(WithId(LoadSnapshot(snapshot)), snapshot, FALSE)
                         ELSE Securities(WithId(r[1].stocks), snapshot,
                                         r[1].suid # "None")
       ELSE /\ secOut' = Securities(WithId(LoadSnapshot(snapshot)), snapshot, FALSE)
            /\ UNCHANGED <<authRes, reqLog, snapshot>>
    /\ UNCHANGED <<env, portal, creds>>
    /\ UNCHANGED <<cacheVars, mapVars, evalVars, ownVars, batchVars, hlVars, rankVars, holdVars>>

SecIdle ==
    /\ creds = [email |-> TRUE, password |-> TRUE]
    /\ secOut = NotFetched

(***************************************************************************)
(* The dashboard's snapshot fetches: dashboard.fetch_with_cache,           *)
(* fetch_stock_data and fetch_batch_stock_data, and the scraper's          *)
(* fetch_batch_stock_data                                                  *)
(***************************************************************************)
\* the batch actions leave the rest alone
BatchOnly ==
    UNCHANGED <<cacheVars, authVars, mapVars, evalVars, ownVars, secVars, hlVars,
                rankVars, holdVars>>

MaxBatch == 2

\* an identifier with two delimiters
VNP_CA_CA == <<"VNP", ":", "CA", ":", "CA">>

BatchSymbols == {MMM_EGX, XYZ_ZZ, VNP_CA_CA, <<"MMM">>}

\* f"{symbol}.json" with symbol None is "None.json"
NoneKey == <<"None">>

\* the file name a mapper value gives
KeyOf(m) == IF m.kind = "None" THEN NoneKey ELSE m.s

\* the keys the symbols lead to; what yf.Ticker(None) does is the library's affair
\* and is drawn from the same outcomes as any other key's
BatchKeys == {<<"MMM">>, NoneKey}

BatchOutcomes == {RaiseO, EmptyO, Dict("None", TRUE), Dict("p1", FALSE), Dict("p1", TRUE)}

BatchFiles == {AbsentF, GarbageF, FullF(Dict("p1", TRUE))}

\* one cache or provider operation
Op(what, k) == <<what, k>>

\* the outcome of a call: its value, the cache it leaves, the operations it made
Outcome(val, c, log) == [val |-> val, cache |-> c, log |-> log]

\* dashboard.fetch_with_cache(symbol) on cache c and provider pr: no validity
\* test and no exception handling
DashFetchWithCache(k, c, pr) ==
    IF c[k].state # "absent" THEN
        IF Deserializable(c[k])
        THEN Outcome(c[k].data, c, <<Op("exists", k), Op("read", k)>>)
        ELSE Outcome(RaisedR, c, <<Op("exists", k), Op("read", k)>>)
    ELSE IF pr[k].kind = "raise"
        THEN Outcome(RaisedR, c, <<Op("exists", k), Op("provider", k)>>)
    ELSE Outcome(pr[k], [c EXCEPT ![k] = FullF(pr[k])],
                 <<Op("exists", k), Op("provider", k), Op("write", k)>>)

\* scraper.fetch_with_cache(symbol) run alone on cache c and provider pr: an
\* unreadable file is removed and the provider asked; an empty answer and an
\* exception both give None and write nothing
ScraperFetchWithCache(k, c, pr) ==
    LET hit == c[k].state # "absent" /\ Deserializable(c[k])
        seen == IF c[k].state = "absent" THEN <<Op("exists", k)>>
                ELSE <<Op("exists", k), Op("read", k), Op("remove", k)>>
        c1 == [c EXCEPT ![k] = AbsentF]
    IN  IF hit THEN Outcome(c[k].data, c, <<Op("exists", k), Op("read", k)>>)
        ELSE IF ~Usable(pr[k])
            THEN Outcome(NoneR, c1, seen \o <<Op("provider", k)>>)
        ELSE Outcome(pr[k], [c EXCEPT ![k] = FullF(pr[k])],
                     seen \o <<Op("provider", k), Op("write", k)>>)

\* the outcomes of the two implementations on key k from the same cache
Both(k, scr, dash) == [kind |-> "pair", key |-> k, scr |-> scr, dash |-> dash]
NoBoth == [kind |-> "idle", key |-> <<>>, scr |-> <<>>, dash |-> <<>>]

\* the record of dashboard.fetch_stock_data: the symbol and "Current Price",
\* which is "N/A" in the record of the except branch
Snapshot(s, price) == [kind |-> "record", Symbol |-> s, CurrentPrice |-> price]
RaisedS == [kind |-> "raised", Symbol |-> <<>>, CurrentPrice |-> "N/A"]

\* dashboard.fetch_stock_data(symbol, stocks_df): the mapper runs outside the try
DashFetchStockData(s, c, pr) ==
    LET m == DashboardMap(s) IN
    IF m.kind = "raise" THEN Outcome(RaisedS, c, <<>>)
    ELSE LET f == DashFetchWithCache(KeyOf(m), c, pr) IN
         IF f.val.kind # "dict" \/ f.val.currentPrice = "None"
         THEN Outcome(Snapshot(s, "N/A"), f.cache, f.log)
         ELSE Outcome(Snapshot(s, f.val.currentPrice), f.cache, f.log)

\* a result of fetch_batch_stock_data: a list, an exception, or None
Batch(rows) == [kind |-> "list", rows |-> rows]
RaisedB == [kind |-> "raised", rows |-> <<>>]
NoneB == [kind |-> "None", rows |-> <<>>]
NoBatch == [kind |-> "idle", rows |-> <<>>]

\* dashboard.fetch_batch_stock_data(symbols, stocks_df)
RECURSIVE DashFetchBatch(_, _, _)
DashFetchBatch(ss, c, pr) ==
    IF ss = <<>> THEN Outcome(Batch(<<>>), c, <<>>)
    ELSE LET one == DashFetchStockData(Head(ss), c, pr) IN
         IF one.val.kind = "raised" THEN Outcome(RaisedB, one.cache, one.log)
         ELSE LET rest == DashFetchBatch(Tail(ss), one.cache, pr)
                  row == IF one.val.CurrentPrice # "N/A" THEN <<one.val>> ELSE <<>>
              IN  IF rest.val.kind = "raised"
                  THEN Outcome(RaisedB, rest.cache, one.log \o rest.log)
                  ELSE Outcome(Batch(row \o rest.val.rows), rest.cache,
                               one.log \o rest.log)

\* scraper.fetch_batch_stock_data(symbols, stocks_df): a body without statements
ScraperFetchBatch(ss) == NoneB

NoSnapshot == [kind |-> "idle", Symbol |-> <<>>, CurrentPrice |-> "N/A"]

\* scraper.fetch_with_cache(k) and dashboard.fetch_with_cache(k), each run from
\* the cache as it is; each outcome holds the cache its run leaves
FetchWithCacheBoth(k) ==
    /\ both' = Both(k, ScraperFetchWithCache(k, bCache, bProv),
                    DashFetchWithCache(k, bCache, bProv))
    /\ bLog' = <<>>
    /\ sOut' = NoSnapshot
    /\ bOut' = NoBatch
    /\ bScr' = NoBatch
    /\ fOut' = NoBatch
    /\ UNCHANGED <<bIn, bCache, bProv>>
    /\ UNCHANGED <<cacheVars, authVars, mapVars, evalVars, ownVars, secVars, hlVars,
                   rankVars, holdVars>>

FetchOne ==
    /\ bIn # <<>>
    /\ LET r == DashFetchStockData(bIn[1], bCache, bProv) IN
        /\ sOut' = r.val
        /\ bCache' = r.cache
        /\ bLog' = r.log
    /\ bOut' = NoBatch
    /\ bScr' = NoBatch
    /\ fOut' = NoBatch
    /\ UNCHANGED <<bIn, bProv>>
    /\ both' = NoBoth
    /\ BatchOnly

FetchBatch ==
    /\ LET r == DashFetchBatch(bIn, bCache, bProv) IN
        /\ bOut' = r.val
        /\ bCache' = r.cache
        /\ bLog' = r.log
    /\ sOut' = NoSnapshot
    /\ bScr' = NoBatch
    /\ fOut' = NoBatch
    /\ UNCHANGED <<bIn, bProv>>
    /\ both' = NoBoth
    /\ BatchOnly

FetchBatchScraper ==
    /\ bScr' = ScraperFetchBatch(bIn)
    /\ bLog' = <<>>
    /\ sOut' = NoSnapshot
    /\ bOut' = NoBatch
    /\ fOut' = NoBatch
    /\ UNCHANGED <<bIn, bCache, bProv>>
    /\ both' = NoBoth
    /\ BatchOnly

\* dashboard.filter_valid_symbols(symbols): the mapped symbols that are truthy
RECURSIVE FilterValidSymbols(_)
FilterValidSymbols(ss) ==
    IF ss = <<>> THEN Batch(<<>>)
    ELSE LET m == DashboardMap(Head(ss)) IN
         IF m.kind = "raise" THEN RaisedB
         ELSE LET rest == FilterValidSymbols(Tail(ss))
                  kept == IF m.kind = "str" /\ m.s # <<>> THEN <<m.s>> ELSE <<>>
              IN  IF rest.kind = "raised" THEN RaisedB
                  ELSE Batch(kept \o rest.rows)

FilterValid ==
    /\ fOut' = FilterValidSymbols(bIn)
    /\ bLog' = <<>>
    /\ sOut' = NoSnapshot
    /\ bOut' = NoBatch
    /\ bScr' = NoBatch
    /\ UNCHANGED <<bIn, bCache, bProv>>
    /\ both' = NoBoth
    /\ BatchOnly

BatchIdle ==
    /\ bIn = <<>>
    /\ bCache = [k \in BatchKeys |-> AbsentF]
    /\ bProv = [k \in BatchKeys |-> RaiseO]
    /\ sOut = NoSnapshot
    /\ bOut = NoBatch
    /\ bScr = NoBatch
    /\ fOut = NoBatch
    /\ both = NoBoth
    /\ bLog = <<>>

(***************************************************************************)
(* The highlights of a day: scraper.fetch_highlights_data and              *)
(* dashboard.fetch_highlights_data, on one date and one cache file         *)
(***************************************************************************)
\* the highlights actions leave the rest alone
HlOnly ==
    UNCHANGED <<cacheVars, authVars, mapVars, evalVars, ownVars, secVars, batchVars,
                rankVars, holdVars>>

MaxHl == 2

HlSymbols == {MMM_EGX, XYZ_ZZ}

HlLists == UNION {[1..n -> HlSymbols] : n \in 0..MaxHl}

\* the provider keys the two mappers lead to
HlKeys == {<<"MMM">>, XYZ_ZZ, NoneKey}

\* what the provider has for a key on the date: it raises, it has history but no
\* timezone metadata, it has no history, or it has history: change (%) and volume
HRaise == [kind |-> "raise", change |-> 0, volume |-> 0]
HNoTz == [kind |-> "notz", change |-> 1, volume |-> 100]
HEmpty == [kind |-> "empty", change |-> 0, volume |-> 0]
HRow(c, v) == [kind |-> "row", change |-> c, volume |-> v]
HlOutcomes == {HRaise, HNoTz, HEmpty, HRow(8, 500), HRow(1, 100)}

\* the outcomes drawn for a key: all of them for the listed symbol, an error or
\* a history for the other keys
HlOutcomesOf(k) == IF k = <<"MMM">> THEN HlOutcomes ELSE {HRaise, HRow(8, 500)}

\* a row of the highlight set
HlRow(s, o) == [Symbol |-> s, change |-> o.change, volume |-> o.volume]

\* the cache file: absent, unparseable, partly written, or a complete row list
HAbsent == [state |-> "absent", rows |-> <<>>]
HGarbage == [state |-> "garbage", rows |-> <<>>]
HPartial == [state |-> "partial", rows |-> <<>>]
HFull(rows) == [state |-> "full", rows |-> rows]

\* a check that never finds the file
HlExistsNever(f) == FALSE

\* os.path.exists(cache_file)
HlExists(f) == f.state # "absent"

\* json.load succeeds
HlLoads(f) == f.state = "full"

\* the result of a call: a DataFrame of rows, or an exception
Frame(rows) == [kind |-> "frame", rows |-> rows]
RaisedH == [kind |-> "raised", rows |-> <<>>]

\* what a call leaves: its result, the file, the provider keys asked
HlOutcome(val, f, asked) == [val |-> val, file |-> f, asked |-> asked]

\* scraper lines 299-323: the loop over the symbols: rows gathered, keys asked
RECURSIVE ScraperGather(_, _)
ScraperGather(ss, pr) ==
    IF ss = <<>> THEN [rows |-> <<>>, asked |-> <<>>]
    ELSE LET k == ScraperMap(Head(ss)).s
             rest == ScraperGather(Tail(ss), pr)
             row == IF pr[k].kind = "row" THEN <<HlRow(Head(ss), pr[k])>> ELSE <<>>
         IN  [rows |-> row \o rest.rows, asked |-> <<k>> \o rest.asked]

\* scraper.fetch_highlights_data(symbols, selected_date); dumpOk tells whether
\* json.dump runs to its end
ScraperHighlights(ss, pr, f, dumpOk) ==
    IF HlExists(f) /\ HlLoads(f) THEN HlOutcome(Frame(f.rows), f, <<>>)
    ELSE LET g == ScraperGather(ss, pr) IN
         IF g.rows = <<>> THEN HlOutcome(Frame(<<>>), HAbsent, g.asked)
         ELSE IF dumpOk THEN HlOutcome(Frame(g.rows), HFull(g.rows), g.asked)
         ELSE HlOutcome(Frame(<<>>), HPartial, g.asked)

\* dashboard lines 48-66: the loop over the symbols; the mapper runs inside the
\* try, and there is no test of the timezone metadata
RECURSIVE DashGather(_, _)
DashGather(ss, pr) ==
    IF ss = <<>> THEN [rows |-> <<>>, asked |-> <<>>]
    ELSE LET m == DashboardMap(Head(ss))
             rest == DashGather(Tail(ss), pr)
         IN  IF m.kind = "raise" THEN rest
             ELSE LET k == KeyOf(m)
                      row == IF pr[k].kind \in {"row", "notz"}
                             THEN <<HlRow(Head(ss), pr[k])>> ELSE <<>>
                  IN  [rows |-> row \o rest.rows, asked |-> <<k>> \o rest.asked]

\* dashboard.fetch_highlights_data(symbols, selected_date)
DashHighlights(ss, pr, f, dumpOk) ==
    IF HlExists(f) THEN
        IF HlLoads(f) THEN HlOutcome(Frame(f.rows), f, <<>>)
        ELSE HlOutcome(RaisedH, f, <<>>)
    ELSE LET g == DashGather(ss, pr) IN
         IF dumpOk THEN HlOutcome(Frame(g.rows), HFull(g.rows), g.asked)
         ELSE HlOutcome(RaisedH, HPartial, g.asked)

\* a completed call
HlCall(impl, r, f) ==
    [impl |-> impl, val |-> r.val, asked |-> r.asked, startFile |-> f]

NoHlCall == [impl |-> "none", val |-> Frame(<<>>), asked |-> <<>>, startFile |-> HAbsent]

HighlightsScraper ==
    /\ \E dumpOk \in BOOLEAN :
        LET r == ScraperHighlights(hIn, hProv, hFile, dumpOk) IN
        /\ hOut' = HlCall("scraper", r, hFile)
        /\ hFile' = r.file
    /\ UNCHANGED <<hIn, hProv>>
    /\ HlOnly

HighlightsDashboard ==
    /\ \E dumpOk \in BOOLEAN :
        LET r == DashHighlights(hIn, hProv, hFile, dumpOk) IN
        /\ hOut' = HlCall("dashboard", r, hFile)
        /\ hFile' = r.file
    /\ UNCHANGED <<hIn, hProv>>
    /\ HlOnly

\* the environment: the provider's data for a key changes
HlProviderChange(k, o) ==
    /\ o # hProv[k]
    /\ hProv' = [hProv EXCEPT ![k] = o]
    /\ UNCHANGED <<hIn, hFile, hOut>>
    /\ HlOnly

\* the environment: the next call asks for another list of symbols
HlSymbolsChange(ss) ==
    /\ ss # hIn
    /\ hIn' = ss
    /\ UNCHANGED <<hProv, hFile, hOut>>
    /\ HlOnly

\* the environment: the cache file is overwritten with unparseable bytes
HlCorrupt ==
    /\ hFile.state = "full"
    /\ hFile' = HGarbage
    /\ UNCHANGED <<hIn, hProv, hOut>>
    /\ HlOnly

HlIdle ==
    /\ hIn = <<>>
    /\ hProv = [k \in HlKeys |-> HRaise]
    /\ hFile = HAbsent
    /\ hOut = NoHlCall

(***************************************************************************)
(* The Highlights tab of the dashboard: rankings and honorable mentions    *)
(***************************************************************************)
\* the ranking leaves the rest alone
RankOnly ==
    UNCHANGED <<cacheVars, authVars, mapVars, evalVars, ownVars, secVars, batchVars,
                hlVars, holdVars>>

MaxRows == 4

\* a row of highlights_df: "Change (%)" and "Volume"
RankRow(c, v) == [change |-> c, volume |-> v]

RankRows == {RankRow(8, 500), RankRow(-2, 2000000), RankRow(1, 100),
             RankRow(5, 1000000), RankRow(-6, 100), RankRow(8, 100)}

\* the tables that reach the rankings: line 464 stops on an empty one; the rows
\* of a table differ from one another
Tables ==
    {tb \in UNION {[1..n -> RankRows] : n \in 1..MaxRows} :
        \A i, j \in 1..Len(tb) : i # j => tb[i] # tb[j]}

\* the value sort_values compares: the column, negated for ascending=False
SortKey(r, by, ascending) ==
    LET v == IF by = "Change (%)" THEN r.change ELSE r.volume
    IN  IF ascending THEN v ELSE -v

\* DataFrame.sort_values(by=..., ascending=...): the orders of the rows it may
\* give, rows with equal keys in any order
SortedOrders(rows, by, ascending) ==
    {p \in Permutations(1..Len(rows)) :
        \A i, j \in 1..Len(rows) :
            i < j => SortKey(rows[p[i]], by, ascending) <= SortKey(rows[p[j]], by, ascending)}

\* DataFrame.head(3) on an order of the rows
Head3(p, n) == [i \in 1..(IF n < 3 THEN n ELSE 3) |-> p[i]]

\* abs(x)
Abs(x) == IF x < 0 THEN -x ELSE x

\* the thresholds taken as inclusive
NotableInclusive(r) == Abs(r.change) >= 5 \/ r.volume >= 1000000

\* line 484: abs(row["Change (%)"]) > 5 or row["Volume"] > 1_000_000
Notable(r) == Abs(r.change) > 5 \/ r.volume > 1000000

\* lines 483-485: the rows written, in table order
Mentions(rows) == SelectSeq([i \in 1..Len(rows) |-> i], LAMBDA i : Notable(rows[i]))

NotRanked == <<>>

\* lines 468-485
Rank ==
    /\ \E p \in SortedOrders(hl, "Change (%)", FALSE) : gainers' = Head3(p, Len(hl))
    /\ \E p \in SortedOrders(hl, "Change (%)", TRUE) : losers' = Head3(p, Len(hl))
    /\ \E p \in SortedOrders(hl, "Volume", FALSE) : byVolume' = Head3(p, Len(hl))
    /\ mentions' = Mentions(hl)
    /\ UNCHANGED hl
    /\ RankOnly

RankIdle ==
    /\ hl = <<RankRow(1, 100)>>
    /\ gainers = NotRanked
    /\ losers = NotRanked
    /\ byVolume = NotRanked
    /\ mentions = NotRanked

(***************************************************************************)
(* The holdings table: scraper.fetch_owned_securities                      *)
(***************************************************************************)
HoldOnly ==
    UNCHANGED <<cacheVars, authVars, mapVars, evalVars, ownVars, secVars, batchVars,
                hlVars, rankVars>>

MaxHeld == 2

Digits == {"0", "1", "2", "3", "4", "5"}

\* the number a run of digits denotes
RECURSIVE IntOf(_)
IntOf(s) ==
    IF s = <<>> THEN 0
    ELSE LET d == s[Len(s)]
             v == CASE d = "0" -> 0 [] d = "1" -> 1 [] d = "2" -> 2
                    [] d = "3" -> 3 [] d = "4" -> 4 [] OTHER -> 5
         IN  10 * IntOf(SubSeq(s, 1, Len(s) - 1)) + v

Parsed(v) == [ok |-> TRUE, v |-> v]
ValueError == [ok |-> FALSE, v |-> 0]

\* int(text.strip()): digits only, at least one
ParseInt(text) ==
    LET u == Strip(text) IN
    IF u # <<>> /\ \A i \in 1..Len(u) : u[i] \in Digits
    THEN Parsed(IntOf(u)) ELSE ValueError

\* float(text.strip().replace('$', '').replace(',', '')): digits with at most one
\* point; float() drops the white space left at the ends
ParseFloat(text) ==
    LET u == Strip(Without(Without(Strip(text), "$"), ","))
        points == {i \in 1..Len(u) : u[i] = "."}
        at == IF points = {} THEN Len(u) + 1 ELSE CHOOSE i \in points : TRUE
    IN  IF /\ Cardinality(points) <= 1
           /\ \A i \in 1..Len(u) : u[i] \in Digits \cup {"."}
           /\ \E i \in 1..Len(u) : u[i] \in Digits
        THEN Parsed([whole |-> IntOf(SubSeq(u, 1, at - 1)),
                     frac |-> SubSeq(u, at + 1, Len(u))])
        ELSE ValueError

\* the record of a row (lines 221-228), or that building it raised
Holding(s, name, qty, avg, cur, gl) ==
    [kind |-> "record", Symbol |-> s, Name |-> name, Quantity |-> qty,
     AveragePrice |-> avg, CurrentPrice |-> cur, Gains |-> gl]
RowRaised ==
    [kind |-> "raised", Symbol |-> <<>>, Name |-> <<>>, Quantity |-> 0,
     AveragePrice |-> 0, CurrentPrice |-> 0, Gains |-> <<>>]

\* a row of five columns taken as complete, its last field empty
HoldingOfLenient(columns) ==
    LET qty == ParseInt(columns[3])
        avg == ParseFloat(columns[4])
        cur == ParseFloat(columns[5])
    IN  IF ~qty.ok \/ ~avg.ok \/ ~cur.ok THEN RowRaised
        ELSE Holding(Strip(columns[1]), Strip(columns[2]), qty.v, avg.v, cur.v,
                     IF Len(columns) < 6 THEN <<>> ELSE Strip(columns[6]))

\* lines 220-231 on a row of at least five columns: the dictionary is built field
\* by field, int() and float() raise ValueError and columns[5] raises IndexError
HoldingOf(columns) ==
    LET qty == ParseInt(columns[3])
        avg == ParseFloat(columns[4])
        cur == ParseFloat(columns[5])
    IN  IF ~qty.ok \/ ~avg.ok \/ ~cur.ok THEN RowRaised
        ELSE IF Len(columns) < 6 THEN RowRaised
        ELSE Holding(Strip(columns[1]), Strip(columns[2]), qty.v, avg.v, cur.v,
                     Strip(columns[6]))

\* lines 214-231: the loop over the rows
RECURSIVE ParseRows(_)
ParseRows(rows) ==
    IF rows = <<>> THEN <<>>
    ELSE LET columns == Head(rows)
             rest == ParseRows(Tail(rows))
         IN  IF Len(columns) < 5 THEN rest
             ELSE LET h == HoldingOf(columns) IN
                  IF h.kind = "raised" THEN rest ELSE <<h>> \o rest

Owned(rows) == [kind |-> "list", rows |-> rows]
NotAsked == [kind |-> "idle", rows |-> <<>>]

\* the whole of fetch_owned_securities (lines 198-240): any exception ends in []
FetchOwnedSecurities(pg) ==
    IF pg.net THEN Owned(<<>>)
    ELSE IF pg.status # 200 THEN Owned(<<>>)
    ELSE IF ~pg.table THEN Owned(<<>>)
    ELSE IF ~pg.tbody THEN Owned(<<>>)
    ELSE Owned(ParseRows(pg.rows))

\* the cells of the rows the portal may serve
GoodRow == << <<"A">>, <<"N">>, <<"3">>, <<"$", "4">>, <<"5">>, <<"danger">> >>
PaddedRow ==
    << <<"\n", "B", "\n">>, <<"N">>, <<"\n", "3">>, <<"$", "1", ",", "2", ".", "5">>,
       <<"1", "0">>, <<"success">>, <<"x">> >>
HeldRows ==
    {GoodRow, PaddedRow,
     SubSeq(GoodRow, 1, 5), SubSeq(GoodRow, 1, 4), <<>>,
     [GoodRow EXCEPT ![3] = <<"1", ",", "0">>],
     [GoodRow EXCEPT ![3] = <<"3", ".", "0">>],
     [GoodRow EXCEPT ![4] = <<"N/A">>],
     [GoodRow EXCEPT ![5] = <<>>]}

Pages ==
    [net : BOOLEAN, status : {200, 500}, table : BOOLEAN, tbody : BOOLEAN,
     rows : UNION {[1..n -> HeldRows] : n \in 0..MaxHeld}]

\* fetch_owned_securities(suid, aut) against the page as it is
FetchOwned ==
    /\ held = NotAsked
    /\ held' = FetchOwnedSecurities(page)
    /\ UNCHANGED page
    /\ HoldOnly

HoldIdle ==
    /\ page = [net |-> FALSE, status |-> 200, table |-> TRUE, tbody |-> TRUE,
               rows |-> <<>>]
    /\ held = NotAsked

(***************************************************************************)
(* Specifications                                                          *)
(***************************************************************************)
Step(p) ==
    \/ \E s \in CacheSymbols : Call(p, s)
    \/ Exists(p)
    \/ Load(p)
    \/ Remove(p)
    \/ Fetch(p)
    \/ OpenW(p)
    \/ Dump(p)
    \/ DumpFail(p)

Env ==
    \/ \E k \in CacheKeys : Corrupt(k)
    \/ \E k \in CacheKeys : Evict(k)
    \/ \E k \in CacheKeys, o \in ProviderOutcomes : ProviderChange(k, o)

Init == CacheInit /\ AuthIdle /\ MapIdle /\ EvalIdle /\ OwnIdle /\ SecIdle /\ BatchIdle /\ HlIdle
        /\ RankIdle /\ HoldIdle

\* one caller at a time: the program as written
Next == Step("p1") \/ Env

Spec == Init /\ [][Next]_vars

\* two callers sharing the cache directory, the provider answering with records
InitConc ==
    /\ CacheInit
    /\ OwnIdle
    /\ SecIdle
    /\ BatchIdle
    /\ HlIdle
    /\ RankIdle
    /\ HoldIdle
    /\ AuthIdle
    /\ MapIdle
    /\ EvalIdle
    /\ \A k \in CacheKeys : provider[k] \in {Dict("p1", TRUE), Dict("None", TRUE)}

NextConc ==
    \/ \E p \in Procs : Step(p)
    \/ \E k \in CacheKeys : Evict(k)

SpecConc == InitConc /\ [][NextConc]_vars

\* the other specifications leave the cache as it starts, the provider down
CacheIdle ==
    /\ CacheInit
    /\ provider = [k \in CacheKeys |-> RaiseO]

InitAuth ==
    /\ CacheIdle
    /\ OwnIdle
    /\ SecIdle
    /\ BatchIdle
    /\ HlIdle
    /\ RankIdle
    /\ HoldIdle
    /\ MapIdle
    /\ EvalIdle
    /\ env \in [login : BOOLEAN, stocks : BOOLEAN]
    /\ portal \in Portals
    /\ authRes = NotCalled
    /\ reqLog = <<>>
    /\ snapshot = NoFile

NextAuth ==
    \/ Login
    \/ \E f \in DOMAIN PortalFields : \E v \in PortalFields[f] : PortalChange(f, v)

SpecAuth == InitAuth /\ [][NextAuth]_vars

InitMap ==
    /\ CacheIdle
    /\ OwnIdle
    /\ SecIdle
    /\ BatchIdle
    /\ HlIdle
    /\ RankIdle
    /\ HoldIdle
    /\ AuthIdle
    /\ EvalIdle
    /\ mapIn \in Ids
    /\ scrOut = NotMapped
    /\ dashOut = NotMapped

NextMap == MapScraper \/ MapDashboard

SpecMap == InitMap /\ [][NextMap]_vars

InitEval ==
    /\ CacheIdle
    /\ OwnIdle
    /\ SecIdle
    /\ BatchIdle
    /\ HlIdle
    /\ RankIdle
    /\ HoldIdle
    /\ AuthIdle
    /\ MapIdle
    /\ snap \in Snapshots
    /\ anaOut = NotAnalyzed
    /\ genOut = NotRecommended

NextEval == Analyze \/ Recommend

SpecEval == InitEval /\ [][NextEval]_vars

InitOwned ==
    /\ CacheIdle
    /\ AuthIdle
    /\ MapIdle
    /\ EvalIdle
    /\ SecIdle
    /\ BatchIdle
    /\ HlIdle
    /\ RankIdle
    /\ HoldIdle
    /\ owned \in OwnedLists
    /\ recs \in RecLists
    /\ ownOut = NotDecided

NextOwned == Decide

SpecOwned == InitOwned /\ [][NextOwned]_vars

InitSec ==
    /\ CacheIdle
    /\ BatchIdle
    /\ HlIdle
    /\ RankIdle
    /\ HoldIdle
    /\ MapIdle
    /\ EvalIdle
    /\ OwnIdle
    /\ AuthIdle
    /\ creds \in [email : BOOLEAN, password : BOOLEAN]
    /\ secOut = NotFetched

\* the respects in which the portal changes here: the network, the rejection
\* text in the login response, the catalog request's status and the catalog page
SecFields == {"net", "rejected", "stocksStatus", "catalog"}

NextSec ==
    \/ GetSecurities
    \/ Login
    \/ \E f \in SecFields : \E v \in PortalFields[f] : PortalChange(f, v)

SpecSec == InitSec /\ [][NextSec]_vars

InitBatch ==
    /\ CacheIdle
    /\ AuthIdle
    /\ MapIdle
    /\ EvalIdle
    /\ OwnIdle
    /\ SecIdle
    /\ HlIdle
    /\ RankIdle
    /\ HoldIdle
    /\ bIn \in UNION {[1..n -> BatchSymbols] : n \in 0..MaxBatch}
    /\ bCache \in [BatchKeys -> BatchFiles]
    /\ bProv \in [BatchKeys -> BatchOutcomes]
    /\ sOut = NoSnapshot
    /\ bOut = NoBatch
    /\ bScr = NoBatch
    /\ fOut = NoBatch
    /\ both = NoBoth
    /\ bLog = <<>>

NextBatch ==
    \/ FetchOne \/ FetchBatch \/ FetchBatchScraper \/ FilterValid
    \/ \E k \in BatchKeys : FetchWithCacheBoth(k)

SpecBatch == InitBatch /\ [][NextBatch]_vars

InitHl ==
    /\ CacheIdle
    /\ AuthIdle
    /\ MapIdle
    /\ EvalIdle
    /\ OwnIdle
    /\ SecIdle
    /\ BatchIdle
    /\ RankIdle
    /\ HoldIdle
    /\ hIn \in HlLists
    /\ hProv \in {pr \in [HlKeys -> HlOutcomes] : \A k \in HlKeys : pr[k] \in HlOutcomesOf(k)}
    /\ hFile = HAbsent
    /\ hOut = NoHlCall

NextHl ==
    \/ HighlightsScraper
    \/ HighlightsDashboard
    \/ \E k \in HlKeys : \E o \in HlOutcomesOf(k) : HlProviderChange(k, o)
    \/ \E ss \in HlLists : HlSymbolsChange(ss)
    \/ HlCorrupt

SpecHl == InitHl /\ [][NextHl]_vars

InitRank ==
    /\ CacheIdle
    /\ AuthIdle
    /\ MapIdle
    /\ EvalIdle
    /\ OwnIdle
    /\ SecIdle
    /\ BatchIdle
    /\ HlIdle
    /\ HoldIdle
    /\ hl \in Tables
    /\ gainers = NotRanked
    /\ losers = NotRanked
    /\ byVolume = NotRanked
    /\ mentions = NotRanked

NextRank == Rank

SpecRank == InitRank /\ [][NextRank]_vars

InitHold ==
    /\ CacheIdle
    /\ AuthIdle
    /\ MapIdle
    /\ EvalIdle
    /\ OwnIdle
    /\ SecIdle
    /\ BatchIdle
    /\ HlIdle
    /\ RankIdle
    /\ page \in Pages
    /\ held = NotAsked

NextHold == FetchOwned

SpecHold == InitHold /\ [][NextHold]_vars

(***************************************************************************)
(* Properties of the snapshot cache                                        *)
(***************************************************************************)
Caller == "p1"

Done(p) == pc[p] = "done" /\ ret[p].kind # "nocall"

\* C1 as stated: repeated calls for the same key on the same cache generation make
\* at most one provider round trip (two calls in succession: one in total)
C1_AtMostOneRoundTrip ==
    \A k \in CacheKeys : calls[k] <= 1

\* C1 (amended): a call for a key that follows, in the same cache generation, a call
\* that returned a record makes no provider round trip and returns that same
\* record, so the two calls together make at most one round trip
C1_HitAfterRecord ==
    (Done(Caller) /\ trk[Caller].startLast.ret.kind = "dict")
        => /\ trk[Caller].made = 0
           /\ ret[Caller] = trk[Caller].startLast.ret
           /\ trk[Caller].startLast.made + trk[Caller].made <= 1

\* two calls in succession: the first asked the provider and got a record, the
\* second was served from the cache
C1_Witness ==
    /\ Done(Caller)
    /\ trk[Caller].startLast.ret.kind = "dict"
    /\ trk[Caller].startLast.made = 1
    /\ trk[Caller].made = 0

\* C2 as stated: a call that meets an undeserializable file removes it, makes
\* exactly one provider fetch and returns the provider's fresh result, which is
\* then the cache entry
C2_HealsToFreshEntry ==
    (Done(Caller) /\ trk[Caller].sawCorrupt)
        => /\ trk[Caller].removed
           /\ trk[Caller].made = 1
           /\ ret[Caller] = trk[Caller].asked
           /\ cache[Key(Caller)] = FullF(trk[Caller].asked)

\* C2 (amended): a call that meets an undeserializable file removes it and makes
\* exactly one provider fetch; it returns either the provider's fresh record, which
\* is then the cache entry, or None, and then no complete entry exists for the key
C2_HealsOrUnavailable ==
    (Done(Caller) /\ trk[Caller].sawCorrupt)
        => /\ trk[Caller].removed
           /\ trk[Caller].made = 1
           /\ \/ /\ ret[Caller].kind = "dict"
                 /\ ret[Caller] = trk[Caller].asked
                 /\ cache[Key(Caller)] = FullF(ret[Caller])
              \/ /\ ret[Caller] = NoneR
                 /\ IF trk[Caller].asked.kind = "dict"
                    THEN cache[Key(Caller)] = PartialF
                    ELSE cache[Key(Caller)] = AbsentF

\* a corrupted file was met and replaced by the provider's fresh record
C2_Witness ==
    /\ Done(Caller)
    /\ trk[Caller].sawCorrupt
    /\ trk[Caller].startFile = GarbageF
    /\ ret[Caller].kind = "dict"
    /\ cache[Key(Caller)] = FullF(ret[Caller])

\* the provider's answer is no usable record: it raised, is empty, has no current
\* price or no timezone metadata
Unusable(o) == o.kind # "dict" \/ o.currentPrice = "None" \/ ~o.tz

\* C3: when the provider returns no usable record the snapshot fetch returns
\* unavailable and no cache entry exists for the key afterwards
C3_NegativeNotCached ==
    (Done(Caller) /\ trk[Caller].made = 1 /\ Unusable(trk[Caller].asked))
        => /\ out[Caller] = NoneOut
           /\ cache[Key(Caller)].state = "absent"

\* C4: every cache file present holds a complete record, also between the steps of
\* a write and after a write that failed, and no reader meets a partly written file
C4_NeverPartial ==
    /\ \A k \in CacheKeys : cache[k].state # "partial"
    /\ \A p \in Procs : ~trk[p].sawPartial

\* a reader met the file another caller had opened for writing and not yet filled
C4_ReaderSawPartial ==
    \E p, q \in Procs :
        /\ p # q
        /\ trk[p].sawPartial
        /\ pc[q] = "dump"
        /\ Key(p) = Key(q)

(***************************************************************************)
(* Properties of the login                                                 *)
(***************************************************************************)
\* C5: every result of fetch_and_parse_stocks carries suid and aut both present
\* (non-empty) or both absent, and a redirect URL that carries only one of the two
\* tokens gives the result of a failed login
C5_SessionAllOrNothing ==
    authRes.kind = "returned" =>
        /\ (authRes.suid \in {"None", ""}) = (authRes.aut \in {"None", ""})
        /\ ((portal.suid = "value") # (portal.aut = "value"))
                => authRes = Failed

\* the login went through and the redirect URL carried suid alone
C5_Witness ==
    /\ authRes.kind = "returned"
    /\ reqLog = <<GetLogin, PostLogin>>
    /\ portal.loginStatus = 200 /\ ~portal.rejected
    /\ portal.suid = "value" /\ portal.aut = "absent"

DelimCount(s) == Cardinality({i \in 1..Len(s) : s[i] = Delim})

\* the rule order of the claim, for an identifier with at most one delimiter
RuleMap(s) ==
    IF s = MMM_EGX THEN Str(<<"MMM">>)
    ELSE IF s = VNP_CA THEN Str(<<"VNP", ".TO">>)
    ELSE IF DelimCount(s) = 0 THEN Str(s)
    ELSE LET d == CHOOSE i \in 1..Len(s) : s[i] = Delim
             base == SubSeq(s, 1, d - 1)
             suffix == SubSeq(s, d + 1, Len(s))
         IN  IF suffix = <<"CA">> THEN Str(base \o <<".TO">>)
             ELSE IF suffix = <<"EGX">> THEN Str(base)
             ELSE NoneM

\* C7: map_bourstad_to_yfinance (the scraper's and the dashboard's) follows the
\* rule order: a table entry wins, base:CA gives base.TO, base:EGX gives base, any
\* other suffix gives no mapping, an identifier without delimiter maps to itself
C7_RuleOrder ==
    DelimCount(mapIn) <= 1 =>
        /\ scrOut.kind # "idle" => scrOut = RuleMap(mapIn)
        /\ dashOut.kind # "idle" => dashOut = RuleMap(mapIn)

\* C8: map_bourstad_to_yfinance returns a mapped identifier or no mapping for
\* every identifier string and never raises
C8_TotalNoRaise ==
    /\ scrOut.kind \in {"idle", "str", "None"}
    /\ dashOut.kind \in {"idle", "str", "None"}

(***************************************************************************)
(* Properties of the recommendation rules                                  *)
(***************************************************************************)
\* a price field that is the unavailable sentinel ("N/A", or no such key) or zero
Unavailable(x) == x.t \in {"na", "missing"} \/ (x.t = "num" /\ x.v = 0)

\* C9: a snapshot whose current price, 52-week high or 52-week low is unavailable
\* or zero gets Neutral with score 50 from both evaluators, nothing else, no raise
C9_NeutralOnInsufficient ==
    (Unavailable(snap.price) \/ Unavailable(snap.high) \/ Unavailable(snap.low)) =>
        /\ anaOut.kind # "idle" => anaOut = Returned(<<Line("data", "Neutral")>>)
        /\ genOut.kind # "idle" => genOut = Rec("Neutral", 50)

Positive(x) == x.t = "num" /\ x.v > 0

\* the proximity label the claim fixes for price p, low l and high h
ClaimedLabel(p, l, h) ==
    CASE 10 * p <= 11 * l -> "Strong Buy"
      [] 10 * p > 11 * l /\ 10 * p <= 12 * l -> "Buy"
      [] 10 * p > 12 * l /\ 10 * p >= 9 * h -> "Strong Sell"
      [] 10 * p > 12 * l /\ 10 * p < 9 * h /\ 10 * p >= 8 * h -> "Sell"
      [] OTHER -> "Hold"

ClaimedScore(label) ==
    CASE label = "Strong Buy" -> 100
      [] label = "Buy" -> 75
      [] label = "Strong Sell" -> 0
      [] label = "Sell" -> 25
      [] label = "Hold" -> 50

ClaimedFundamentals(pe, dy) ==
    LET p == IF pe.t = "missing" THEN Num(0) ELSE pe
        d == IF dy.t = "missing" THEN Num(0) ELSE dy
    IN
    IF IsNum(p) /\ p.v < 15 /\ IsNum(d) /\ d.v > 3
        THEN <<Line("fundamentals", "Buy")>>
    ELSE IF IsNum(p) /\ p.v > 30 THEN <<Line("fundamentals", "Sell")>>
    ELSE <<>>

\* C11: for every snapshot with sufficient price data analyze_stocks returns its
\* proximity line followed by a Buy fundamentals line exactly when P/E < 15 and
\* yield > 0.03, by a Sell fundamentals line exactly when P/E > 30, and by
\* nothing otherwise
C11_FundamentalsAdditive ==
    (Positive(snap.price) /\ Positive(snap.low) /\ Positive(snap.high)
        /\ anaOut.kind # "idle") =>
        anaOut = Returned(
            <<Line("proximity", ClaimedLabel(snap.price.v, snap.low.v, snap.high.v))>>
            \o ClaimedFundamentals(snap.pe, snap.dy))

\* P/E 10, yield 0.05 and a price mid-range: a Hold line and the Buy annotation
C11_HoldAndBuy ==
    /\ snap.low = Num(5) /\ snap.high = Num(11) /\ snap.price = Num(8)
    /\ snap.pe = Num(10) /\ snap.dy = Num(5)
    /\ anaOut = Returned(<<Line("proximity", "Hold"), Line("fundamentals", "Buy")>>)

\* a record of the unit test: Symbol, Name, P/E Ratio and Dividend Yield, no
\* price and no 52-week fields
NoPriceFields(s) == s.price = Missing /\ s.high = Missing /\ s.low = Missing

HasLine(o, rule, label) ==
    \E i \in 1..Len(o.lines) : o.lines[i] = Line(rule, label)

\* C12: for a record without price fields analyze_stocks returns a non-empty list
\* that holds a Buy fundamentals line when P/E is 15 and yield 0.03, a Sell
\* fundamentals line when P/E is 35, and neither when P/E is 25 and yield 0
C12_FundamentalsAlone ==
    (NoPriceFields(snap) /\ anaOut.kind # "idle") =>
        /\ anaOut.kind = "ok" /\ Len(anaOut.lines) > 0
        /\ (snap.pe = Num(15) /\ snap.dy = Num(3))
                => HasLine(anaOut, "fundamentals", "Buy")
        /\ snap.pe = Num(35) => HasLine(anaOut, "fundamentals", "Sell")
        /\ (snap.pe = Num(25) /\ snap.dy = Num(0))
                => (\A i \in 1..Len(anaOut.lines) :
                        anaOut.lines[i].label \notin {"Buy", "Sell"})

\* the first record of the test was analyzed: the data check answered for it
C12_NeutralOnly ==
    /\ NoPriceFields(snap) /\ snap.pe = Num(15) /\ snap.dy = Num(3)
    /\ anaOut = Returned(<<Line("data", "Neutral")>>)

(***************************************************************************)
(* Properties of the owned-position rules                                  *)
(***************************************************************************)
\* the lines of the decisions that belong to the first position
FirstLines == SelectSeq(ownOut.lines, LAMBDA l : l.name = owned[1].name)

\* the price-ratio label the rule fixes for current price c and average price a
ClaimedRatio(c, a) ==
    CASE 10 * c > 12 * a -> "Sell"
      [] 10 * c < 8 * a -> "Buy more"
      [] OTHER -> "Hold"

\* C13: a position with both prices non-zero gets exactly one price-ratio line,
\* the one the rule fixes; when its status holds the positive marker in any case
\* and its current price is above 1.2 times the average, its lines start with a
\* Hold line that echoes the status, followed by the Sell line
C13_KeywordAndRatio ==
    (ownOut.kind # "idle" /\ Positive(owned[1].avg) /\ Positive(owned[1].cur)) =>
        LET o == owned[1]
            ratios == SelectSeq(FirstLines, LAMBDA l : l.rule = "ratio")
        IN
        /\ ownOut.kind = "ok"
        /\ Len(ratios) = 1
        /\ ratios[1].label = ClaimedRatio(o.cur.v, o.avg.v)
        /\ ( /\ \E i \in 1..Len(o.status) :
                    o.status[i] \in {"success", "Success", "SUCCESS"}
             /\ o.status # NoStatus
             /\ 10 * o.cur.v > 12 * o.avg.v )
                => /\ FirstLines[1] = Decision(o, "keyword", "Hold", o.status)
                   /\ FirstLines[2] = Decision(o, "ratio", "Sell", <<>>)

\* status "Success +30%", current price above 1.2 times the average: Hold, then Sell
C13_Witness ==
    /\ ownOut.kind = "ok"
    /\ owned[1].status = <<"Success", "+30%">>
    /\ owned[1].avg = Num(3) /\ owned[1].cur = Num(4)
    /\ FirstLines[1].rule = "keyword" /\ FirstLines[1].label = "Hold"
    /\ FirstLines[2].rule = "ratio" /\ FirstLines[2].label = "Sell"

\* C20: a position whose current or average price is zero or unavailable gets
\* exactly one line, Hold for insufficient data; the call does not raise and the
\* positions after it get their lines
C20_HoldOnInsufficient ==
    (ownOut.kind # "idle"
        /\ (Unavailable(owned[1].avg) \/ Unavailable(owned[1].cur))) =>
        /\ ownOut.kind = "ok"
        /\ FirstLines = <<Decision(owned[1], "data", "Hold", <<>>)>>
        /\ Len(owned) = 2 => Len(ownOut.lines) > 1

\* a current price of zero, a second position after it: one Hold line, then the
\* lines of the second position
C20_ZeroHolds ==
    /\ Len(owned) = 2
    /\ owned[1].cur = Num(0) /\ owned[1].avg = Num(3)
    /\ ownOut.kind = "ok"
    /\ FirstLines = <<Decision(owned[1], "data", "Hold", <<>>)>>
    /\ Len(ownOut.lines) > 1

(***************************************************************************)
(* Properties of the catalog fallback                                      *)
(***************************************************************************)
\* the catalog that the catalog fetch last wrote to the snapshot file
LastWritten(file) ==
    IF ~file.exists THEN <<>>
    ELSE CHOOSE os \in UNION {[1..n -> Options] : n \in 0..MaxOptions} :
            FormatLines(os) = file.lines

\* C14: without a session, for lack of credentials or after a login that failed,
\* get_bourstad_securities returns the entries of the last snapshot file, those
\* with an empty identifier left out
C14_FallbackToSnapshot ==
    (secOut.kind # "idle" /\ (~HasCreds(creds) \/ ~secOut.session)) =>
        secOut.stocks = SelectSeq(LastWritten(secOut.startFile), LAMBDA o : o.id # <<>>)

\* no credentials: the entries of the snapshot file were returned
C14_SnapshotServed ==
    /\ ~HasCreds(creds)
    /\ secOut.kind = "ok"
    /\ secOut.startFile.exists
    /\ secOut.stocks = <<[id |-> MMM_EGX, name |-> <<"3M Corp.">>]>>

(***************************************************************************)
(* Properties of the batch fetch                                           *)
(***************************************************************************)
\* the symbol has a mapping and the cache now holds a usable record for it: it
\* was served from the cache or fetched and stored by the call
Resolved(s) ==
    /\ DelimCount(s) <= 1
    /\ RuleMap(s).kind = "str"
    /\ bCache[RuleMap(s).s].state = "full"
    /\ ~Unusable(bCache[RuleMap(s).s].data)

ResolvedRows ==
    LET hits == SelectSeq(bIn, Resolved) IN
    [i \in 1..Len(hits) |->
        Snapshot(hits[i], bCache[RuleMap(hits[i]).s].data.currentPrice)]

\* C15: fetch_batch_stock_data never raises and returns the list of exactly the
\* requested symbols that resolved to a usable snapshot, whatever fails for the
\* other symbols
C15_BatchSkipsFailures ==
    /\ bOut.kind # "idle" => bOut = Batch(ResolvedRows)
    /\ bScr.kind # "idle" => bScr = Batch(ResolvedRows)

\* an identifier without mapping before one that resolves: the dashboard's batch
\* holds the second alone
C15_UnmappedSkipped ==
    /\ bIn = <<XYZ_ZZ, MMM_EGX>>
    /\ bOut = Batch(<<Snapshot(MMM_EGX, "p1")>>)

(***************************************************************************)
(* Properties of the highlights                                            *)
(***************************************************************************)
\* C16: a call of fetch_highlights_data that finds a cached highlight set for the
\* date returns that set, asks the provider nothing and leaves the file as it is,
\* whatever the provider has now and whatever symbols are asked for
C16_CachedSetIsServed ==
    (hOut.impl # "none" /\ hOut.startFile.state = "full") =>
        /\ hOut.val = Frame(hOut.startFile.rows)
        /\ hOut.asked = <<>>
        /\ (hFile.state = "full" => hFile = hOut.startFile)

\* the cached set was served although the provider now has other data for a
\* symbol that is asked for
C16_Witness ==
    /\ hOut.impl # "none"
    /\ hOut.startFile = HFull(<<HlRow(MMM_EGX, HRow(8, 500))>>)
    /\ hOut.val = Frame(hOut.startFile.rows)
    /\ hFile = hOut.startFile
    /\ hIn = <<MMM_EGX, XYZ_ZZ>>
    /\ hProv[<<"MMM">>] = HRow(1, 100)

(***************************************************************************)
(* Properties of the rankings                                              *)
(***************************************************************************)
\* ranked is the top three of the rows by key, largest first: min(3, n) different
\* rows in descending order of key, and no row left out has a larger key
TopThree(ranked, key(_)) ==
    /\ Len(ranked) = (IF Len(hl) < 3 THEN Len(hl) ELSE 3)
    /\ \A i \in 1..Len(ranked) : ranked[i] \in 1..Len(hl)
    /\ \A i, j \in 1..Len(ranked) :
            i < j => (ranked[i] # ranked[j] /\ key(hl[ranked[i]]) >= key(hl[ranked[j]]))
    /\ \A m \in 1..Len(hl) :
            (\A i \in 1..Len(ranked) : ranked[i] # m)
                => \A i \in 1..Len(ranked) : key(hl[m]) <= key(hl[ranked[i]])

\* C17: the gainers are the top three by descending change, the losers the top
\* three by ascending change, the volume list the top three by descending volume,
\* and the honorable mentions are exactly the rows with |change| > 5 or volume
\* above 1,000,000
C17_RankingsAndMentions ==
    gainers # NotRanked =>
        /\ TopThree(gainers, LAMBDA r : r.change)
        /\ TopThree(losers, LAMBDA r : -r.change)
        /\ TopThree(byVolume, LAMBDA r : r.volume)
        /\ {mentions[i] : i \in 1..Len(mentions)} =
                {m \in 1..Len(hl) :
                    \/ hl[m].change > 5 \/ hl[m].change < -5
                    \/ hl[m].volume > 1000000}
        /\ \A i, j \in 1..Len(mentions) : i < j => mentions[i] < mentions[j]

\* changes +8, -2, +1 with volumes 500, 2,000,000, 100: the +8 row leads the
\* gainers, and the +8 row and the 2,000,000 row are mentioned
C17_Witness ==
    /\ hl = <<RankRow(8, 500), RankRow(-2, 2000000), RankRow(1, 100)>>
    /\ gainers # NotRanked
    /\ gainers[1] = 1
    /\ mentions = <<1, 2>>

(***************************************************************************)
(* Properties across the fetches                                           *)
(***************************************************************************)
\* C18: no fetch raises to its caller, whatever the portal and the provider do:
\* fetch_and_parse_stocks, fetch_with_cache, fetch_stock_data and
\* fetch_highlights_data return an empty collection, None or a sentinel
C18_NothingRaises ==
    /\ authRes.kind # "raised"
    /\ \A p \in Procs : ret[p].kind # "raised"
    /\ sOut.kind # "raised"
    /\ hOut.val.kind # "raised"

\* the catalog request answered 500: the call returned the empty result
C18_StatusAbsorbed ==
    /\ portal.net = "none" /\ portal.stocksStatus = 500
    /\ authRes = Failed
    /\ reqLog = <<GetLogin, PostLogin, GetStocks>>

\* the identifier has no mapping
Unmapped(s) == DelimCount(s) <= 1 /\ RuleMap(s) = NoneM

\* the provider keys of the identifiers of ss that have a mapping
MappedKeys(ss) ==
    {RuleMap(ss[i]).s : i \in {j \in 1..Len(ss) : DelimCount(ss[j]) <= 1 /\ ~Unmapped(ss[j])}}

\* C19: an identifier without mapping is dropped by filter_valid_symbols, and the
\* snapshot fetches and the highlights fetch make no provider call and no cache
\* access for it: every key they touch is the mapping of a requested identifier
C19_UnmappedDropped ==
    /\ fOut.kind = "list" =>
            \A i \in 1..Len(fOut.rows) : fOut.rows[i] \in MappedKeys(bIn)
    /\ \A i \in 1..Len(bLog) : bLog[i][2] \in MappedKeys(bIn)
    /\ \A i \in 1..Len(hOut.asked) : hOut.asked[i] \in MappedKeys(hIn)

\* filter_valid_symbols dropped the identifier without mapping and kept the other
C19_FilterDrops ==
    /\ bIn = <<XYZ_ZZ, MMM_EGX>>
    /\ fOut = Batch(<< <<"MMM">> >>)

(***************************************************************************)
(* Properties of the snapshot file of the catalog                          *)
(***************************************************************************)
\* C21: a call of fetch_and_parse_stocks that returns an empty catalog leaves the
\* snapshot file as it was; the file changes only when the fetched catalog is
\* non-empty, and then it holds the lines of the whole fetched catalog
C21_EmptyCatalogKeepsSnapshot ==
    [][/\ (authRes'.kind = "returned" /\ authRes'.stocks = <<>>) => snapshot' = snapshot
       /\ snapshot' # snapshot =>
            /\ authRes'.stocks # <<>>
            /\ snapshot' = File(FormatLines(authRes'.stocks))]_vars

\* a call fetched a catalog with options and the file holds a line for each
C21_CatalogWritten ==
    /\ authRes.kind = "returned"
    /\ authRes.stocks # <<>>
    /\ snapshot = File(FormatLines(authRes.stocks))

(***************************************************************************)
(* Properties of the holdings table                                        *)
(***************************************************************************)
\* the row has the six columns and its three numeric columns parse
Complete(columns) ==
    /\ Len(columns) >= 6
    /\ ParseInt(columns[3]).ok
    /\ ParseFloat(columns[4]).ok
    /\ ParseFloat(columns[5]).ok

\* C22: fetch_owned_securities returns exactly the rows of the table that have at
\* least six columns and whose numeric columns parse, in table order; shorter rows
\* and rows that fail to parse give no record and do not end the loop
C22_CompleteRowsOnly ==
    (held.kind = "list" /\ ~page.net /\ page.status = 200 /\ page.table /\ page.tbody) =>
        LET idx == SelectSeq([i \in 1..Len(page.rows) |-> i],
                             LAMBDA i : Complete(page.rows[i]))
        IN  /\ Len(held.rows) = Len(idx)
            /\ \A k \in 1..Len(idx) :
                LET c == page.rows[idx[k]] IN
                    /\ held.rows[k].kind = "record"
                    /\ held.rows[k].Symbol = Strip(c[1])
                    /\ held.rows[k].Quantity = ParseInt(c[3]).v
                    /\ held.rows[k].AveragePrice = ParseFloat(c[4]).v
                    /\ held.rows[k].CurrentPrice = ParseFloat(c[5]).v
                    /\ held.rows[k].Gains = Strip(c[6])

\* a row of five columns, then a complete row: one record, of the second row
C22_Witness ==
    /\ page = [net |-> FALSE, status |-> 200, table |-> TRUE, tbody |-> TRUE,
               rows |-> <<SubSeq(GoodRow, 1, 5), PaddedRow>>]
    /\ held = Owned(<<Holding(<<"B">>, <<"N">>, 3, [whole |-> 12, frac |-> <<"5">>],
                              [whole |-> 10, frac |-> <<>>], <<"success">>)>>)

(***************************************************************************)
(* Properties of the session tokens                                        *)
(***************************************************************************)
\* C23: when the login answers 200 without the rejection text and the final URL
\* carries both tokens, fetch_and_parse_stocks returns the two tokens, whatever
\* the catalog request gives (status other than 200, no control, no options)
C23_TokensReturned ==
    (/\ authRes.kind = "returned"
     /\ ~MissingUrls(env)
     /\ portal.loginStatus = 200 /\ ~portal.rejected
     /\ portal.suid = "value" /\ portal.aut = "value")
        => (authRes.suid = "S1" /\ authRes.aut = "A1")

\* the catalog page has no select control: the tokens come with an empty catalog
C23_TokensWithEmptyCatalog ==
    /\ authRes = Result(<<>>, "S1", "A1")
    /\ ~portal.catalog.select
    /\ reqLog = <<GetLogin, PostLogin, GetStocks>>

(***************************************************************************)
(* Properties of the highlights cache                                      *)
(***************************************************************************)
\* C24: the highlights file of a date is written only with at least one resolved
\* symbol: no complete file holds an empty highlight set, so a call after an
\* empty result finds no entry and asks the provider again
C24_EmptyNeverCached ==
    /\ hFile.state = "full" => hFile.rows # <<>>
    /\ (hOut.impl # "none" /\ hOut.val = Frame(<<>>) /\ hOut.startFile = HAbsent)
            => hFile.state # "full"

\* the scraper's fetch asked the provider, resolved nothing and left no file
C24_ScraperLeavesNoFile ==
    /\ hOut.impl = "scraper"
    /\ hOut.asked # <<>>
    /\ hOut.val = Frame(<<>>)
    /\ hFile = HAbsent

(***************************************************************************)
(* Properties of the two snapshot caches                                   *)
(***************************************************************************)
\* C25: scraper.fetch_with_cache and dashboard.fetch_with_cache, run on the same
\* key from the same cache state with the same provider answer, return the same
\* value and leave the same cache state
C25_SameValueSameCache ==
    both.kind = "pair" =>
        /\ both.scr.val = both.dash.val
        /\ both.scr.cache = both.dash.cache

\* the entry is cached and readable: both return it and leave the cache alone
C25_BothHit ==
    /\ both.kind = "pair"
    /\ bCache[both.key] = FullF(Dict("p1", TRUE))
    /\ both.scr.val = Dict("p1", TRUE)
    /\ both.dash.val = Dict("p1", TRUE)
    /\ both.scr.cache = bCache /\ both.dash.cache = bCache

(***************************************************************************)
(* Properties of the cross-reference                                       *)
(***************************************************************************)
\* the recommendation lines generated for the security of symbol s
GeneratedFor(s) == {RecString(<<"N">>, s, label) : label \in {"Buy", "Sell"}}

\* the positions (in a list) and the cross-referenced lines (in a result) of symbol s
CountOf(seq, test(_)) == Cardinality({i \in 1..Len(seq) : test(seq[i])})

\* C26: a cross-referenced recommendation surfaced for an owned position was
\* generated for the security whose symbol is exactly the position's symbol, and
\* at most one such line is surfaced per position
C26_ExactSymbol ==
    ownOut.kind \in {"ok", "raise"} =>
        /\ \A i \in 1..Len(ownOut.lines) :
                ownOut.lines[i].rule = "xref"
                    => ownOut.lines[i].echo \in GeneratedFor(ownOut.lines[i].sym)
        /\ \A s \in OwnedSymbols :
                CountOf(ownOut.lines, LAMBDA l : l.rule = "xref" /\ l.sym = s)
                    <= CountOf(owned, LAMBDA o : o.sym = s)

\* the position's own recommendation is the one surfaced
C26_OwnLineSurfaced ==
    /\ ownOut.kind = "ok"
    /\ Len(owned) = 1
    /\ owned[1].sym = <<"A", "B">>
    /\ recs = <<RecString(<<"N">>, <<"A">>, "Sell"), RecString(<<"N">>, <<"A", "B">>, "Buy")>>
    /\ \E i \in 1..Len(ownOut.lines) :
            /\ ownOut.lines[i].rule = "xref"
            /\ ownOut.lines[i].echo = RecString(<<"N">>, <<"A", "B">>, "Buy")

====
